---- MODULE Spec2Model ----
(***************************************************************************)
(* Request execution pipeline of the go-openrouter client                  *)
(* (src/client.go): sendRequest's retry loop, cloneRequest, doRequest,     *)
(* handleErrorResp and decodeResponse, for one logical call, with its       *)
(* callers CreateChatCompletion (src/chat.go) and newStreamRequest.         *)
(*                                                                         *)
(* Spec follows one call through every response; LiveSpec adds the         *)
(* fairness of the transport and of time.Sleep; ConcSpec interleaves        *)
(* NumCalls calls of one client.                                           *)
(*                                                                         *)
(* Strings that the code searches (error messages) are sequences of        *)
(* tokens; strings.Contains is token membership.  A response body is a     *)
(* record that carries its raw text together with what encoding/json       *)
(* makes of it.                                                            *)
(***************************************************************************)
EXTENDS Integers, Sequences, FiniteSets, TLC

VARIABLES
    config,            \* Client.config (read-only after construction)
    pc,                \* position of the call: idle, attempt, backoff, sleeping, done (stream: a stream request was built)
    attempt,           \* loop variable of sendRequest
    attempts,          \* number of calls of HTTPClient.Do made by the call
    lastErr,           \* sendRequest's lastErr
    payload,           \* the body bytes of the request handed to sendRequest
    req,               \* the *http.Request the loop currently holds
    dest,              \* kind of the destination v: nil, string, struct
    presented,         \* body bytes readable from req.Body at the latest Do
    resp,              \* what the latest Do returned
    outcome,           \* error returned by the latest doRequest
    decoded,           \* whether the latest doRequest reached decodeResponse, and with which bytes
    result,            \* content of the destination v
    ret,               \* error returned by sendRequest
    cancelled,         \* the caller's context is cancelled
    attemptsAtCancel,  \* value of attempts when the context was cancelled during a backoff sleep, else -1
    allTransient,      \* history: every attempt so far failed with a transport or transient error
    jitter,            \* sendRequest's jitter of the latest sleep, in thousandths (0: out of scope)
    sleepDuration,     \* sendRequest's sleepDuration of the latest sleep, in milliseconds (0: out of scope)
    chatReq,           \* the ChatCompletionRequest handed to CreateChatCompletion, if that is the caller
    cpc,               \* concurrent calls: position of each call (idle, attempt, backoff, done)
    cattempt,          \* concurrent calls: each call's loop variable attempt
    clastErr,          \* concurrent calls: each call's lastErr
    cdest,             \* concurrent calls: each call's destination kind
    chist,             \* concurrent calls: the responses the transport gave each call, in order
    cret,              \* concurrent calls: the error each call returned
    cresult,           \* concurrent calls: the content of each call's destination
    rngState           \* concurrent calls: position of math/rand's process-wide source

vars == <<config, pc, attempt, attempts, lastErr, payload, req, dest, presented,
          resp, outcome, decoded, result, ret, cancelled, attemptsAtCancel, allTransient,
          jitter, sleepDuration, chatReq,
          cpc, cattempt, clastErr, cdest, chist, cret, cresult, rngState>>

\* The state of the single call of Spec, and the state of the concurrent calls of ConcSpec.
callVars == <<pc, attempt, attempts, lastErr, payload, req, dest, presented,
              resp, outcome, decoded, result, ret, cancelled, attemptsAtCancel, allTransient,
              jitter, sleepDuration, chatReq>>

concVars == <<cpc, cattempt, clastErr, cdest, chist, cret, cresult, rngState>>

(* ------------------------------ bounds -------------------------------- *)

MaxBodyLen == 2

\* rand.Float64() returns one of 0/RandSteps, 1/RandSteps, ..., (RandSteps-1)/RandSteps.
RandSteps == 3

\* No call is followed beyond AttemptCap transport attempts.
AttemptCap == 6

\* Number of concurrent calls on one client.
NumCalls == 2

(* ---------------------------- constants ------------------------------- *)

maxRetries == 3

\* initialBackoff in milliseconds.
initialBackoff == 1000

StatusOK == 200

StatusBadRequest == 400

retryableErrors == {"Overloaded", "Internal Server Error", "Provider returned error"}

(* ------------------------------ errors -------------------------------- *)

\* An error value: kind, the HTTP status it carries, its message, and the
\* error it wraps (kind, message, status), all of one record shape.
Err(kind, status, msg, ikind, imsg, istatus) ==
    [kind |-> kind, status |-> status, msg |-> msg,
     ikind |-> ikind, imsg |-> imsg, istatus |-> istatus]

NoErr == Err("nil", 0, <<>>, "nil", <<>>, 0)

\* err.Error() as a sequence of tokens: the fmt.Errorf formats of sendRequest,
\* doRequest and cloneRequest followed by the wrapped error's text; a
\* RequestError shows its inner error, an APIError its message.
ErrorString(e) ==
    CASE e.kind = "send"         -> <<"failed to send request:">> \o e.imsg
      [] e.kind = "read"         -> <<"failed to read response body:">> \o e.imsg
      [] e.kind = "api"          -> <<"API error:">> \o e.msg
      [] e.kind = "RequestError" -> <<"error, status code">> \o e.imsg
      [] e.kind = "APIError"     -> e.msg
      [] e.kind = "decode"       -> e.msg
      [] e.kind = "clone"        -> <<"failed to clone request for retry:">> \o e.imsg
      [] e.kind = "exhausted"    -> <<"all retry attempts failed, last error:">> \o e.imsg
      [] OTHER                   -> <<>>

Contains(s, t) == \E i \in DOMAIN s : s[i] = t

shouldRetry(e) ==
    IF e = NoErr THEN FALSE
    ELSE \E r \in retryableErrors : Contains(ErrorString(e), r)

\* The transient-failure policy with transport errors: the failures a retry is meant for.
Retryable(e) == e.kind = "send" \/ shouldRetry(e)

(* ------------------------- responses and bodies ----------------------- *)

\* A response body: raw text; readErr: reading it from the connection fails;
\* valid: decoding it into ErrorResponse returns no error; hasErr: the decode
\* left ErrorResponse.Error non-nil; msg, code: the error object's message and
\* the status code the body claims; jsonErr: the decode error's message;
\* fits: it decodes into the caller's structured destination.
Body(raw, readErr, valid, hasErr, msg, code, jsonErr, fits) ==
    [raw |-> raw, readErr |-> readErr, valid |-> valid, hasErr |-> hasErr,
     msg |-> msg, code |-> code, jsonErr |-> jsonErr, fits |-> fits]

Bodies ==
    { Body("", FALSE, FALSE, FALSE, <<>>, 0, <<"EOF">>, FALSE),
      Body("<html>", FALSE, FALSE, FALSE, <<>>, 0, <<"invalid character">>, FALSE),
      Body("{\"id\":\"1\"}", FALSE, TRUE, FALSE, <<>>, 0, <<>>, TRUE),
      Body("{\"id\":{}}", FALSE, TRUE, FALSE, <<>>, 0, <<>>, FALSE),
      Body("{\"error\":{\"message\":\"boom\"}}", FALSE, TRUE, TRUE, <<"boom">>, 0, <<>>, TRUE),
      Body("{\"error\":{\"message\":\"boom\",\"code\":418}}", FALSE, TRUE, TRUE, <<"boom">>, 418, <<>>, TRUE),
      Body("{\"error\":{\"message\":\"Overloaded\"}}", FALSE, TRUE, TRUE, <<"Overloaded">>, 0, <<>>, TRUE),
      Body("{\"error\":{}}", FALSE, TRUE, TRUE, <<>>, 0, <<>>, TRUE),
      Body("{\"error\":{\"message\":123}}", FALSE, FALSE, TRUE, <<>>, 0, <<"cannot unmarshal number">>, FALSE),
      Body("{\"error\":{\"message\":\"boom\",\"type\":5}}", FALSE, FALSE, TRUE, <<"boom">>, 0, <<"cannot unmarshal number">>, TRUE),
      Body("{\"id\"", TRUE, FALSE, FALSE, <<>>, 0, <<"unexpected EOF">>, FALSE) }

Statuses == {200, 201, 204, 500}

TransportErrs == { <<"connection refused">> }

NoBody == Body("", FALSE, FALSE, FALSE, <<>>, 0, <<>>, FALSE)

\* What HTTPClient.Do returns: an error, or a response with status and body.
Response(failed, terr, status, body) ==
    [failed |-> failed, terr |-> terr, status |-> status, body |-> body]

NoResp == Response(FALSE, <<>>, 0, NoBody)

Responses ==
    { Response(TRUE, t, 0, NoBody) : t \in TransportErrs }
    \cup { Response(FALSE, <<>>, s, b) : s \in Statuses, b \in Bodies }

(* ------------------------------ requests ------------------------------ *)

HeaderNames == {"Accept", "Content-Type", "HTTP-Referer", "X-Title", "Authorization",
                "Cache-Control", "Connection"}

NoHeaders == [h \in HeaderNames |-> ""]

\* Request bodies: the byte strings 1, 1 2, 1 2 3, ... of length 0..MaxBodyLen
\* (the code never looks at the bytes, so distinct bytes per position tell
\* every truncation and reordering apart).
Payloads == { [i \in 1..n |-> i] : n \in 0..MaxBodyLen }

\* req.Body: hasBody (Body != nil), data (the bytes not yet read),
\* closeBreaks (reading after Close fails), broken (Close was called on such a body).
Request(hasBody, data, closeBreaks, broken, headers) ==
    [hasBody |-> hasBody, data |-> data, closeBreaks |-> closeBreaks,
     broken |-> broken, headers |-> headers]

NoReq == Request(FALSE, <<>>, FALSE, FALSE, NoHeaders)

Configs == [authToken : {"tok1"}, HttpReferer : {"https://app"}, XTitle : {"app"}]

Dests == {"nil", "string", "struct"}

NoDecode == [called |-> FALSE, raw |-> ""]

NoResult == [set |-> FALSE, raw |-> ""]

Calls == 1..NumCalls

\* What the transport answers to concurrent calls: a transport error, a
\* decodable 200 response or a 500 response with an error object.
ConcResponses ==
    { r \in Responses :
        \/ r.failed /\ r.terr = <<"connection refused">>
        \/ ~r.failed /\ r.status = 200 /\ r.body.raw = "{\"id\":\"1\"}"
        \/ ~r.failed /\ r.status = 500 /\ r.body.raw = "{\"error\":{\"message\":\"boom\"}}" }

\* Model names a ChatCompletionRequest can carry.
Models == {"known-model", "unknown-model"}

ChatCompletionRequest(stream, model) == [called |-> TRUE, Stream |-> stream, Model |-> model]

NoChatReq == [called |-> FALSE, Stream |-> FALSE, Model |-> ""]

ErrChatCompletionStreamNotSupported ==
    Err("ErrChatCompletionStreamNotSupported", 0,
        <<"streaming is not supported with this method, please use CreateChatCompletionStream">>,
        "nil", <<>>, 0)

ErrCompletionUnsupportedModel ==
    Err("ErrCompletionUnsupportedModel", 0,
        <<"this model is not supported with this method">>, "nil", <<>>, 0)

\* The error requestBuilder.Build returns when it cannot build the request.
ErrBuild == Err("build", 0, <<"build failed">>, "nil", <<>>, 0)

\* The serialized body requestBuilder.Build gives a request.
BuiltPayload == [i \in 1..MaxBodyLen |-> i]

(* --------------------------- pure functions --------------------------- *)

setCommonHeaders(h, cfg) ==
    [h EXCEPT !["HTTP-Referer"] = cfg.HttpReferer,
              !["X-Title"] = cfg.XTitle,
              !["Authorization"] = "Bearer " \o cfg.authToken]

\* doRequest's headers with Content-Type set whether or not the caller set one.
doRequestHeaders_Overwrite(h, cfg) ==
    setCommonHeaders([h EXCEPT !["Accept"] = "application/json; charset=utf-8",
                               !["Content-Type"] = "application/json; charset=utf-8"], cfg)

\* doRequest's headers with Header.Add in the place of Header.Set for Accept.
doRequestHeaders_Add(h, cfg) ==
    LET h1 == [h EXCEPT !["Accept"] = IF @ = "" THEN "application/json; charset=utf-8"
                                      ELSE @ \o ", application/json; charset=utf-8"]
        h2 == IF h1["Content-Type"] = ""
              THEN [h1 EXCEPT !["Content-Type"] = "application/json; charset=utf-8"]
              ELSE h1
    IN  setCommonHeaders(h2, cfg)

\* The header part of doRequest (Accept, default Content-Type, common headers).
doRequestHeaders(h, cfg) ==
    LET h1 == [h EXCEPT !["Accept"] = "application/json; charset=utf-8"]
        h2 == IF h1["Content-Type"] = ""
              THEN [h1 EXCEPT !["Content-Type"] = "application/json; charset=utf-8"]
              ELSE h1
    IN  setCommonHeaders(h2, cfg)

\* newStreamRequest's headers without the common headers.
newStreamRequestHeaders_NoCommon(h, cfg) ==
    [h EXCEPT !["Content-Type"] = "application/json",
              !["Accept"] = "text/event-stream",
              !["Cache-Control"] = "no-cache",
              !["Connection"] = "keep-alive"]

\* The header part of newStreamRequest.
newStreamRequestHeaders(h, cfg) ==
    setCommonHeaders([h EXCEPT !["Content-Type"] = "application/json",
                               !["Accept"] = "text/event-stream",
                               !["Cache-Control"] = "no-cache",
                               !["Connection"] = "keep-alive"], cfg)

\* wrapperModels[name]: the wrapped name of a known model, "" for any other.
wrapperModels(m) == IF m = "known-model" THEN "vendor/known-model" ELSE ""

checkSupportsModel(m) == m # ""

\* CreateChatCompletion's checks with the stream check left out.
chatCompletionGuard_NoStreamCheck(stream, supported) ==
    IF ~supported THEN ErrCompletionUnsupportedModel ELSE NoErr

\* CreateChatCompletion's checks before it builds a request.
chatCompletionGuard(stream, supported) ==
    IF stream THEN ErrChatCompletionStreamNotSupported
    ELSE IF ~supported THEN ErrCompletionUnsupportedModel
    ELSE NoErr

\* backoff of the retry with loop counter a, in milliseconds.
backoffOf(a) == initialBackoff * 2^(a - 1)

\* jitter in thousandths for the draw i/RandSteps of rand.Float64().
jitterOf(i) == (i * 500) \div RandSteps + 500

\* time.Duration(backoff * jitter), truncated.
sleepDurationOf(a, j) == (backoffOf(a) * j) \div 1000

isFailureStatusCode(rsp) == rsp.status < StatusOK \/ rsp.status >= StatusBadRequest

\* decodeResponse(body, v): the error it returns and what it stores in v.
decodeResponse(body, d) ==
    IF d = "nil" THEN [err |-> NoErr, result |-> NoResult]
    ELSE IF d = "string" THEN [err |-> NoErr, result |-> [set |-> TRUE, raw |-> body.raw]]
    ELSE IF body.fits THEN [err |-> NoErr, result |-> [set |-> TRUE, raw |-> body.raw]]
    ELSE [err |-> Err("decode", 0, body.jsonErr, "nil", <<>>, 0), result |-> NoResult]

\* handleErrorResp without the replacement of Err by a decoded error object.
handleErrorResp_KeepDecodeErr(rsp) ==
    LET b == rsp.body IN
    IF ~b.valid \/ ~b.hasErr
    THEN IF ~b.valid
         THEN Err("RequestError", rsp.status, <<>>, "json", b.jsonErr, 0)
         ELSE Err("RequestError", rsp.status, <<>>, "nil", <<>>, 0)
    ELSE Err("APIError", rsp.status, b.msg, "nil", <<>>, 0)

\* handleErrorResp without the assignment of the response's status code.
handleErrorResp_BodyStatus(rsp) ==
    LET b == rsp.body IN
    IF ~b.valid \/ ~b.hasErr
    THEN IF b.hasErr
         THEN Err("RequestError", rsp.status, <<>>, "APIError", b.msg, b.code)
         ELSE IF ~b.valid
              THEN Err("RequestError", rsp.status, <<>>, "json", b.jsonErr, 0)
              ELSE Err("RequestError", rsp.status, <<>>, "nil", <<>>, 0)
    ELSE Err("APIError", b.code, b.msg, "nil", <<>>, 0)

handleErrorResp(rsp) ==
    LET b == rsp.body IN
    IF ~b.valid \/ ~b.hasErr
    THEN IF b.hasErr
         THEN Err("RequestError", rsp.status, <<>>, "APIError", b.msg, b.code)
         ELSE IF ~b.valid
              THEN Err("RequestError", rsp.status, <<>>, "json", b.jsonErr, 0)
              ELSE Err("RequestError", rsp.status, <<>>, "nil", <<>>, 0)
    ELSE Err("APIError", rsp.status, b.msg, "nil", <<>>, 0)

\* Success as the 2xx/3xx range instead of exactly 200.
isSuccessStatus_Range(rsp) == ~isFailureStatusCode(rsp)

\* doRequest's test of the status code.
isSuccessStatus(rsp) == rsp.status = StatusOK

\* doRequest's test of a 200 body for an embedded error.
embeddedError(b) == b.valid /\ b.hasErr /\ b.msg # <<>>

\* doRequest without the reset of res.Body: the decoder reads the drained body.
doRequest_NoReset(rsp, d) ==
    IF rsp.failed
    THEN [err |-> Err("send", 0, <<>>, "transport", rsp.terr, 0),
          decoded |-> NoDecode, result |-> NoResult]
    ELSE IF ~isSuccessStatus(rsp)
    THEN [err |-> handleErrorResp(rsp), decoded |-> NoDecode, result |-> NoResult]
    ELSE IF rsp.body.readErr
    THEN [err |-> Err("read", 0, <<>>, "io", rsp.body.jsonErr, 0),
          decoded |-> NoDecode, result |-> NoResult]
    ELSE IF embeddedError(rsp.body)
    THEN [err |-> Err("api", 0, rsp.body.msg, "nil", <<>>, 0),
          decoded |-> NoDecode, result |-> NoResult]
    ELSE LET drained == Body("", FALSE, FALSE, FALSE, <<>>, 0, <<"EOF">>, FALSE)
             dr == decodeResponse(drained, d)
         IN  [err |-> dr.err, decoded |-> [called |-> TRUE, raw |-> drained.raw],
              result |-> dr.result]

\* The part of doRequest after HTTPClient.Do returned rsp: the error it
\* returns, whether and with which bytes decodeResponse ran, and what was
\* stored in the destination.
doRequest(rsp, d) ==
    IF rsp.failed
    THEN [err |-> Err("send", 0, <<>>, "transport", rsp.terr, 0),
          decoded |-> NoDecode, result |-> NoResult]
    ELSE IF ~isSuccessStatus(rsp)
    THEN [err |-> handleErrorResp(rsp), decoded |-> NoDecode, result |-> NoResult]
    ELSE IF rsp.body.readErr
    THEN [err |-> Err("read", 0, <<>>, "io", rsp.body.jsonErr, 0),
          decoded |-> NoDecode, result |-> NoResult]
    ELSE IF embeddedError(rsp.body)
    THEN [err |-> Err("api", 0, rsp.body.msg, "nil", <<>>, 0),
          decoded |-> NoDecode, result |-> NoResult]
    ELSE LET dr == decodeResponse(rsp.body, d)
         IN  [err |-> dr.err, decoded |-> [called |-> TRUE, raw |-> rsp.body.raw],
              result |-> dr.result]

\* cloneRequest without the test of io.ReadAll's error.
cloneRequest_IgnoreReadError(r) ==
    [ok |-> TRUE,
     req |-> IF r.hasBody
             THEN Request(TRUE, IF r.broken THEN <<>> ELSE r.data, FALSE, FALSE, r.headers)
             ELSE r,
     err |-> NoErr]

\* cloneRequest(req): ok and the clone, or the error.
cloneRequest(r) ==
    IF r.hasBody /\ r.broken
    THEN [ok |-> FALSE, req |-> NoReq,
          err |-> Err("clonebody", 0, <<>>, "io", <<"read on closed body">>, 0)]
    ELSE [ok |-> TRUE,
          req |-> IF r.hasBody
                  THEN Request(TRUE, r.data, FALSE, FALSE, r.headers)
                  ELSE r,
          err |-> NoErr]

\* The test of doRequest's error inverted.
attemptSucceeded_Inverted(e) == e # NoErr

\* sendRequest's test of doRequest's error: nil ends the call with success.
attemptSucceeded(e) == e = NoErr

\* The loop's test always true.
loopContinues_Always(a) == TRUE

\* The loop's test off by one.
loopContinues_OffByOne(a) == a <= maxRetries

\* The loop's test after attempt++ of iteration a.
loopContinues(a) == a + 1 <= maxRetries

\* The error sendRequest returns after the loop.
exhaustedError(last) ==
    Err("exhausted", 0, <<>>, last.kind, ErrorString(last), last.status)

\* The error sendRequest returns when cloneRequest fails.
cloneFailedError(e) ==
    Err("clone", 0, <<>>, e.kind, <<"failed to read original request body:">> \o e.imsg, 0)

\* The loop variable read as one variable of the client that every call uses.
counterOf_Shared(ctr, c) == ctr[1]

\* The loop variable attempt of call c: a local variable of that call's sendRequest.
counterOf(ctr, c) == ctr[c]

\* sendRequest run alone against the responses h, from loop counter a on:
\* whether it returned, its error and result, and how many responses it left unused.
RECURSIVE RunAlone(_, _, _)
RunAlone(h, d, a) ==
    IF h = <<>>
    THEN [done |-> FALSE, ret |-> NoErr, result |-> NoResult, left |-> 0]
    ELSE LET r == doRequest(Head(h), d) IN
         IF attemptSucceeded(r.err)
         THEN [done |-> TRUE, ret |-> NoErr, result |-> r.result, left |-> Len(h) - 1]
         ELSE IF loopContinues(a)
         THEN RunAlone(Tail(h), d, a + 1)
         ELSE [done |-> TRUE, ret |-> exhaustedError(NoErr), result |-> NoResult,
               left |-> Len(h) - 1]

(* ------------------------------ the call ------------------------------ *)

Init ==
    /\ config \in Configs
    /\ pc = "idle"
    /\ attempt = 0
    /\ attempts = 0
    /\ lastErr = NoErr
    /\ payload = <<>>
    /\ req = NoReq
    /\ dest = "nil"
    /\ presented = <<>>
    /\ resp = NoResp
    /\ outcome = NoErr
    /\ decoded = NoDecode
    /\ result = NoResult
    /\ ret = NoErr
    /\ cancelled = FALSE
    /\ attemptsAtCancel = -1
    /\ allTransient = TRUE
    /\ jitter = 0
    /\ sleepDuration = 0
    /\ chatReq = NoChatReq
    /\ cpc = [c \in Calls |-> "idle"]
    /\ cattempt = [c \in Calls |-> 0]
    /\ clastErr = [c \in Calls |-> NoErr]
    /\ cdest = [c \in Calls |-> "nil"]
    /\ chist = [c \in Calls |-> <<>>]
    /\ cret = [c \in Calls |-> NoErr]
    /\ cresult = [c \in Calls |-> NoResult]
    /\ rngState = 0

\* A caller hands a request and a destination to sendRequest.
SendRequest ==
    /\ pc = "idle"
    /\ \E hasBody \in BOOLEAN, p \in Payloads, cb \in BOOLEAN,
          ct \in {"", "multipart/form-data"}, d \in Dests :
          /\ hasBody \/ (p = <<>> /\ ~cb)
          /\ payload' = p
          /\ req' = Request(hasBody, p, cb, FALSE, [NoHeaders EXCEPT !["Content-Type"] = ct])
          /\ dest' = d
    /\ pc' = "attempt"
    /\ attempt' = 0
    /\ UNCHANGED <<config, attempts, lastErr, presented, resp, outcome, decoded,
                   result, ret, cancelled, attemptsAtCancel, allTransient,
                   jitter, sleepDuration, chatReq>>
    /\ UNCHANGED concVars

\* CreateChatCompletion: the checks, the request built for /chat/completions
\* and the entry into sendRequest with the response as destination.
CreateChatCompletion ==
    /\ pc = "idle"
    /\ \E stream \in BOOLEAN, m \in Models, built \in BOOLEAN :
          LET g == chatCompletionGuard(stream, checkSupportsModel(wrapperModels(m))) IN
          /\ chatReq' = ChatCompletionRequest(stream, m)
          /\ IF g # NoErr
             THEN /\ pc' = "done"
                  /\ ret' = g
                  /\ UNCHANGED <<payload, req, dest>>
             ELSE IF ~built
             THEN /\ pc' = "done"
                  /\ ret' = ErrBuild
                  /\ UNCHANGED <<payload, req, dest>>
             ELSE /\ pc' = "attempt"
                  /\ ret' = ret
                  /\ payload' = BuiltPayload
                  /\ req' = Request(TRUE, BuiltPayload, FALSE, FALSE, NoHeaders)
                  /\ dest' = "struct"
    /\ attempt' = 0
    /\ UNCHANGED <<config, attempts, lastErr, presented, resp, outcome, decoded,
                   result, cancelled, attemptsAtCancel, allTransient,
                   jitter, sleepDuration>>
    /\ UNCHANGED concVars

\* newStreamRequest: the request it returns to its caller, or Build's error.
NewStreamRequest ==
    /\ pc = "idle"
    /\ \E built \in BOOLEAN :
          IF built
          THEN /\ pc' = "stream"
               /\ ret' = ret
               /\ payload' = BuiltPayload
               /\ req' = Request(TRUE, BuiltPayload, FALSE, FALSE,
                                 newStreamRequestHeaders(NoHeaders, config))
          ELSE /\ pc' = "done"
               /\ ret' = ErrBuild
               /\ UNCHANGED <<payload, req>>
    /\ UNCHANGED <<config, attempt, attempts, lastErr, dest, presented, resp, outcome,
                   decoded, result, cancelled, attemptsAtCancel, allTransient,
                   jitter, sleepDuration, chatReq>>
    /\ UNCHANGED concVars

\* One iteration's doRequest and the loop's tail: the transport reads k bytes
\* of the body, closes it and returns rsp.
DoAttempt ==
    /\ pc = "attempt"
    /\ attempts < AttemptCap
    /\ \E rsp \in Responses, k \in 0..Len(req.data) :
          LET r == doRequest(rsp, dest) IN
          /\ presented' = req.data
          /\ req' = [req EXCEPT !.headers = doRequestHeaders(req.headers, config),
                                !.data = SubSeq(req.data, k + 1, Len(req.data)),
                                !.broken = req.hasBody /\ req.closeBreaks]
          /\ attempts' = attempts + 1
          /\ resp' = rsp
          /\ outcome' = r.err
          /\ decoded' = r.decoded
          /\ result' = IF r.result.set THEN r.result ELSE result
          /\ allTransient' = (allTransient /\ Retryable(r.err))
          /\ IF attemptSucceeded(r.err)
             THEN /\ pc' = "done"
                  /\ ret' = NoErr
                  /\ attempt' = attempt
             ELSE IF loopContinues(attempt)
             THEN /\ pc' = "backoff"
                  /\ ret' = ret
                  /\ attempt' = attempt + 1
             ELSE /\ pc' = "done"
                  /\ ret' = exhaustedError(lastErr)
                  /\ attempt' = attempt + 1
    /\ UNCHANGED <<config, lastErr, payload, dest, cancelled, attemptsAtCancel,
                   jitter, sleepDuration, chatReq>>
    /\ UNCHANGED concVars

\* The next iteration begins: the backoff is computed and time.Sleep is entered.
Sleep ==
    /\ pc = "backoff"
    /\ \E i \in 0..(RandSteps - 1) :
          /\ jitter' = jitterOf(i)
          /\ sleepDuration' = sleepDurationOf(attempt, jitterOf(i))
    /\ pc' = "sleeping"
    /\ UNCHANGED <<config, attempt, attempts, lastErr, payload, req, dest, presented, resp,
                   outcome, decoded, result, ret, cancelled, attemptsAtCancel, allTransient,
                   chatReq>>
    /\ UNCHANGED concVars

\* time.Sleep returns and the request is cloned for the retry.
Retry ==
    /\ pc = "sleeping"
    /\ jitter' = 0
    /\ sleepDuration' = 0
    /\ LET c == cloneRequest(req) IN
       IF c.ok
       THEN /\ req' = c.req
            /\ pc' = "attempt"
            /\ ret' = ret
       ELSE /\ req' = req
            /\ pc' = "done"
            /\ ret' = cloneFailedError(c.err)
    /\ UNCHANGED <<config, attempt, attempts, lastErr, payload, dest, presented, resp,
                   outcome, decoded, result, cancelled, attemptsAtCancel, allTransient,
                   chatReq>>
    /\ UNCHANGED concVars

\* The caller cancels the request's context (or its deadline passes) while the
\* call is in time.Sleep.
Cancel ==
    /\ pc = "sleeping"
    /\ ~cancelled
    /\ cancelled' = TRUE
    /\ attemptsAtCancel' = attempts
    /\ UNCHANGED <<config, pc, attempt, attempts, lastErr, payload, req, dest, presented,
                   resp, outcome, decoded, result, ret, allTransient,
                   jitter, sleepDuration, chatReq>>
    /\ UNCHANGED concVars

Next == SendRequest \/ CreateChatCompletion \/ NewStreamRequest \/ DoAttempt \/ Sleep \/ Retry \/ Cancel

Spec == Init /\ [][Next]_vars

\* A caller starts call c with a structured destination.
ConcSend(c) ==
    /\ cpc[c] = "idle"
    /\ cdest' = [cdest EXCEPT ![c] = "struct"]
    /\ cpc' = [cpc EXCEPT ![c] = "attempt"]
    /\ cattempt' = [cattempt EXCEPT ![c] = 0]
    /\ UNCHANGED <<clastErr, chist, cret, cresult, rngState>>
    /\ UNCHANGED <<config, callVars>>

\* One iteration's doRequest and the loop's tail, of call c.
ConcAttempt(c) ==
    /\ cpc[c] = "attempt"
    /\ Len(chist[c]) < AttemptCap
    /\ \E rsp \in ConcResponses :
          LET r == doRequest(rsp, cdest[c]) IN
          /\ chist' = [chist EXCEPT ![c] = Append(@, rsp)]
          /\ cresult' = [cresult EXCEPT ![c] = IF r.result.set THEN r.result ELSE @]
          /\ IF attemptSucceeded(r.err)
             THEN /\ cpc' = [cpc EXCEPT ![c] = "done"]
                  /\ cret' = [cret EXCEPT ![c] = NoErr]
                  /\ cattempt' = cattempt
             ELSE IF loopContinues(counterOf(cattempt, c))
             THEN /\ cpc' = [cpc EXCEPT ![c] = "backoff"]
                  /\ cret' = cret
                  /\ cattempt' = [cattempt EXCEPT ![c] = counterOf(cattempt, c) + 1]
             ELSE /\ cpc' = [cpc EXCEPT ![c] = "done"]
                  /\ cret' = [cret EXCEPT ![c] = exhaustedError(clastErr[c])]
                  /\ cattempt' = [cattempt EXCEPT ![c] = counterOf(cattempt, c) + 1]
    /\ UNCHANGED <<clastErr, cdest, rngState>>
    /\ UNCHANGED <<config, callVars>>

\* Call c draws its jitter from the process-wide source, sleeps and goes on
\* to its next attempt.
ConcRetry(c) ==
    /\ cpc[c] = "backoff"
    /\ rngState' = (rngState + 1) % RandSteps
    /\ cpc' = [cpc EXCEPT ![c] = "attempt"]
    /\ UNCHANGED <<cattempt, clastErr, cdest, chist, cret, cresult>>
    /\ UNCHANGED <<config, callVars>>

ConcNext == \E c \in Calls : ConcSend(c) \/ ConcAttempt(c) \/ ConcRetry(c)

\* Calls issued concurrently from one client, their steps interleaved.
ConcSpec == Init /\ [][ConcNext]_vars

\* One response of each class doRequest tells apart: a transport error, and
\* status 200 or 500 with an empty body, a decodable body or an error object.
LiveResponses ==
    { r \in Responses :
        \/ r.failed /\ r.terr = <<"connection refused">>
        \/ /\ ~r.failed
           /\ r.status \in {200, 500}
           /\ r.body.raw \in {"", "{\"id\":\"1\"}", "{\"error\":{\"message\":\"boom\"}}"} }

\* An attempt against a transport that answers with one of LiveResponses.
LiveAttempt == DoAttempt /\ resp' \in LiveResponses

LiveNext ==
    SendRequest \/ CreateChatCompletion \/ NewStreamRequest \/ LiveAttempt \/ Sleep \/ Retry \/ Cancel

\* Every transport attempt returns and every time.Sleep ends.
LiveSpec ==
    Init /\ [][LiveNext]_vars /\ WF_vars(LiveAttempt) /\ WF_vars(Sleep) /\ WF_vars(Retry)

TypeOK ==
    /\ pc \in {"idle", "attempt", "backoff", "sleeping", "done", "stream"}
    /\ attempt \in 0..(maxRetries + 1)
    /\ attempts \in 0..(maxRetries + 1)
    /\ cancelled \in BOOLEAN

(* ------------------------------ claims -------------------------------- *)

Returned == pc = "done"

Attempted == attempts > 0

GotResponse == Attempted /\ ~resp.failed

\* C1: when every attempt of a call has failed, the returned error identifies
\* retry exhaustion and carries the error of the last attempt as its cause,
\* which is never nil.
C1_ExhaustionCarriesLastError ==
    (Returned /\ attempts = maxRetries + 1 /\ outcome # NoErr) =>
        /\ ret.kind = "exhausted"
        /\ ret.ikind # "nil"
        /\ ret.ikind = outcome.kind
        /\ ret.imsg = ErrorString(outcome)

\* C2: on every attempt the body bytes presented to the transport equal the
\* original request body bytes.
C2_BodyReplayedOnEveryAttempt ==
    Attempted => presented = payload

\* C3: a failed attempt is retried only when its error is a transport error or
\* matches the transient-failure policy; any other failure ends the call,
\* which returns that error.
C3_RetryOnlyTransient ==
    /\ (Attempted /\ pc \in {"backoff", "sleeping", "attempt"}) => Retryable(outcome)
    /\ (Returned /\ outcome # NoErr /\ ~Retryable(outcome)) => ret = outcome

C5_CancelEndsCall ==
    attemptsAtCancel # -1 =>
        /\ attempts = attemptsAtCancel
        /\ Returned => ret.kind = "cancelled"

\* C6: an attempt with status 200 whose body fails to decode into the
\* destination is never retried: the call returns the decode error.
C6_DecodeFailureNotRetried ==
    (Attempted /\ outcome.kind = "decode") => (Returned /\ ret = outcome)

\* C7: an attempt with status 200 and a body carrying an error object with a
\* message is a failed attempt: doRequest returns an API error and does not
\* decode the body into the destination.
C7_EmbeddedErrorIsFailure ==
    (GotResponse /\ resp.status = StatusOK /\ ~resp.body.readErr
       /\ resp.body.hasErr /\ resp.body.msg # <<>>) =>
        /\ outcome.kind = "api"
        /\ outcome.msg = resp.body.msg
        /\ ~decoded.called

\* C8: an attempt succeeds only with status exactly 200; every other status
\* takes the failure path of handleErrorResp and never reaches the decoder.
C8_OnlyStatus200Succeeds ==
    /\ (GotResponse /\ resp.status # StatusOK) =>
           /\ outcome.kind \in {"RequestError", "APIError"}
           /\ outcome.status = resp.status
           /\ ~decoded.called
           /\ ~(Returned /\ ret = NoErr)
    /\ (Attempted /\ outcome = NoErr) => (~resp.failed /\ resp.status = StatusOK)

C8_Witness ==
    /\ GotResponse /\ resp.status = 204 /\ resp.body.valid /\ resp.body.fits
    /\ outcome.kind = "RequestError" /\ pc = "backoff"

\* The bodies of C9: empty, unparseable, or parseable without an error object.
C9_Body == ~resp.body.valid \/ ~resp.body.hasErr

\* C9 as claimed: for a non-200 response whose body is empty, unparseable or
\* without an error object, handleErrorResp returns a generic error with the
\* response's status code, whose inner cause is the decode failure when there
\* is one; it never returns nil.
C9_GenericErrorAsClaimed ==
    (GotResponse /\ resp.status # StatusOK /\ C9_Body) =>
        /\ outcome.kind = "RequestError"
        /\ outcome.status = resp.status
        /\ ~resp.body.valid => (outcome.ikind = "json" /\ outcome.imsg = resp.body.jsonErr)

\* C9 as amended: handleErrorResp returns a generic error with the response's
\* status code, never nil; its inner cause is the error object when the failed
\* decode still produced one, else the decode failure when there is one, else
\* nothing.
C9_GenericError ==
    (GotResponse /\ resp.status # StatusOK /\ C9_Body) =>
        /\ outcome.kind = "RequestError"
        /\ outcome.status = resp.status
        /\ resp.body.hasErr =>
               (outcome.ikind = "APIError" /\ outcome.imsg = resp.body.msg)
        /\ (~resp.body.hasErr /\ ~resp.body.valid) =>
               (outcome.ikind = "json" /\ outcome.imsg = resp.body.jsonErr)
        /\ (~resp.body.hasErr /\ resp.body.valid) => outcome.ikind = "nil"

C9_Witness ==
    /\ GotResponse /\ resp.status = 500 /\ ~resp.body.valid /\ resp.body.hasErr
    /\ outcome.kind = "RequestError" /\ outcome.ikind = "APIError"

\* C10: for a non-200 response whose body decodes to an error object, the
\* returned error is that object with its status code set to the response's
\* status code, whatever code the body carried.
C10_StatusFromResponse ==
    (GotResponse /\ resp.status # StatusOK /\ resp.body.valid /\ resp.body.hasErr) =>
        /\ outcome.kind = "APIError"
        /\ outcome.msg = resp.body.msg
        /\ outcome.status = resp.status

C10_Witness ==
    /\ GotResponse /\ resp.status = 500 /\ resp.body.valid /\ resp.body.hasErr
    /\ resp.body.code = 418 /\ outcome.kind = "APIError" /\ outcome.status = 500

\* C11: if attempt k is the first to succeed, the call returns nil with the
\* result decoded from attempt k's response and makes no attempt after it; two
\* failures followed by a success give the success after exactly three attempts.
C11_FirstSuccessEndsCall ==
    /\ (Attempted /\ outcome = NoErr) =>
           /\ Returned /\ ret = NoErr
           /\ attempts = attempt + 1
           /\ dest # "nil" => result = [set |-> TRUE, raw |-> resp.body.raw]
    /\ (Returned /\ ret = NoErr) => (Attempted /\ outcome = NoErr)

C11_Witness ==
    /\ Returned /\ ret = NoErr /\ attempts = 3 /\ attempt = 2
    /\ dest = "struct" /\ result = [set |-> TRUE, raw |-> resp.body.raw]

\* The headers doRequest sets from the ClientConfig and for content negotiation.
PolicyHeadersSet(h) ==
    /\ h["Accept"] = "application/json; charset=utf-8"
    /\ h["HTTP-Referer"] = config.HttpReferer
    /\ h["X-Title"] = config.XTitle
    /\ h["Authorization"] = "Bearer " \o config.authToken

\* C12: every attempt's header policy leaves a Content-Type the caller set
\* unchanged, sets it to JSON only when none was set, and in both cases sets
\* Accept, HTTP-Referer, X-Title and Authorization: Bearer <token> from the
\* ClientConfig.
C12_HeaderPolicy ==
    [][attempts' = attempts + 1 =>
          /\ req.headers["Content-Type"] # "" =>
                 req'.headers["Content-Type"] = req.headers["Content-Type"]
          /\ req.headers["Content-Type"] = "" =>
                 req'.headers["Content-Type"] = "application/json; charset=utf-8"
          /\ PolicyHeadersSet(req'.headers)]_vars

C12_Witness ==
    /\ attempts = 1 /\ req.headers["Content-Type"] = "multipart/form-data"
    /\ PolicyHeadersSet(req.headers)

\* C13: the header policy is idempotent: applied to headers it has produced
\* it changes nothing, and the headers of every retry attempt equal the
\* headers of the first attempt.
C13_HeaderPolicyIdempotent ==
    /\ [](Attempted => doRequestHeaders(req.headers, config) = req.headers)
    /\ [][Attempted => req'.headers = req.headers]_vars

C13_Witness ==
    /\ attempts = 3 /\ pc = "backoff" /\ req.headers["Content-Type"] = "multipart/form-data"
    /\ PolicyHeadersSet(req.headers)

\* C18: for a 200 response without an embedded error, the bytes handed to the
\* decoder are the full response body; a *string destination receives exactly
\* those bytes, and a nil destination makes the attempt succeed with nothing
\* decoded.
C18_DecoderGetsFullBody ==
    (GotResponse /\ resp.status = StatusOK /\ ~resp.body.readErr
       /\ ~(resp.body.hasErr /\ resp.body.msg # <<>>)) =>
        /\ decoded = [called |-> TRUE, raw |-> resp.body.raw]
        /\ dest = "string" =>
               (outcome = NoErr /\ result = [set |-> TRUE, raw |-> resp.body.raw])
        /\ dest = "nil" => (outcome = NoErr /\ result = NoResult)

C18_Witness ==
    /\ GotResponse /\ resp.status = StatusOK /\ resp.body.raw = "<html>"
    /\ dest = "string" /\ result = [set |-> TRUE, raw |-> "<html>"]
    /\ Returned /\ ret = NoErr

\* C19: if cloneRequest cannot read the body before a retry, the call stops at
\* once: it returns the "failed to clone request for retry" error wrapping the
\* read error and makes no further transport attempt.
C19_CloneFailureEndsCall ==
    /\ [][(pc = "sleeping" /\ req.hasBody /\ req.broken /\ pc' # "sleeping") =>
              /\ pc' = "done"
              /\ ret'.kind = "clone"
              /\ ret'.ikind = "clonebody"
              /\ Contains(ErrorString(ret'), "read on closed body")
              /\ attempts' = attempts]_vars
    /\ [](ret.kind = "clone" => pc = "done")
    /\ [][ret.kind = "clone" => attempts' = attempts]_vars

C19_Witness ==
    Returned /\ ret.kind = "clone" /\ attempts = 1 /\ req.broken

\* The jitter factors of [0.5, 1.5) on the grid of the draws, in thousandths.
ClaimedJitters == { (i * 1000) \div RandSteps + 500 : i \in 0..(RandSteps - 1) }

\* C14: no sleep happens before the first attempt; the sleep before retry k is
\* initialBackoff * 2^(k-1) times a jitter factor of [0.5, 1.5), and every
\* factor of that range is possible.
C14_BackoffJitter ==
    /\ pc = "sleeping" => (attempts >= 1 /\ attempt = attempts)
    /\ (Attempted /\ attempts = 1 /\ pc = "backoff") => sleepDuration = 0
    /\ pc = "sleeping" =>
           /\ jitter \in 500..1499
           /\ sleepDuration = (initialBackoff * 2^(attempt - 1) * jitter) \div 1000
    /\ pc = "backoff" => \A j \in ClaimedJitters : ENABLED (Sleep /\ jitter' = j)

\* C16: CreateChatCompletion rejects a streaming request with
\* ErrChatCompletionStreamNotSupported and an unsupported model with
\* ErrCompletionUnsupportedModel before any request is built or sent, and the
\* response is nil.
C16_ChatCompletionRejects ==
    /\ (chatReq.called /\ chatReq.Stream) =>
           /\ Returned /\ ret = ErrChatCompletionStreamNotSupported
           /\ attempts = 0 /\ req = NoReq /\ result = NoResult
    /\ (chatReq.called /\ ~chatReq.Stream /\ ~checkSupportsModel(wrapperModels(chatReq.Model))) =>
           /\ Returned /\ ret = ErrCompletionUnsupportedModel
           /\ attempts = 0 /\ req = NoReq /\ result = NoResult

C16_Witness ==
    /\ chatReq.called /\ chatReq.Stream /\ chatReq.Model = "known-model"
    /\ Returned /\ ret = ErrChatCompletionStreamNotSupported /\ attempts = 0

\* C17: a request built by newStreamRequest carries Accept: text/event-stream,
\* Cache-Control: no-cache and Connection: keep-alive, and the HTTP-Referer,
\* X-Title and Authorization: Bearer <token> of non-streaming requests.
C17_StreamHeaders ==
    pc = "stream" =>
        /\ req.headers["Accept"] = "text/event-stream"
        /\ req.headers["Cache-Control"] = "no-cache"
        /\ req.headers["Connection"] = "keep-alive"
        /\ req.headers["Authorization"] = "Bearer " \o config.authToken
        /\ \A h \in {"HTTP-Referer", "X-Title", "Authorization"} :
               req.headers[h] = doRequestHeaders(NoHeaders, config)[h]

C17_Witness ==
    pc = "stream" /\ req.headers["Accept"] = "text/event-stream" /\ req.hasBody

\* C20: every call terminates when every transport attempt returns and every
\* sleep ends: sendRequest returns nil or an error after at most
\* maxRetries + 1 attempts and maxRetries sleeps.
C20_Terminates ==
    /\ (pc \in {"attempt", "backoff", "sleeping"}) ~> (pc = "done")
    /\ [](pc = "done" => (attempts <= maxRetries + 1 /\ attempt <= maxRetries + 1))

C20_Witness ==
    Returned /\ attempts = maxRetries + 1 /\ ret.kind = "exhausted"

====
